---------------------------- MODULE Spec2Model ----------------------------
(***************************************************************************)
(* Emlee (src/main.py): a viewer that opens one .eml / .msg file at a      *)
(* time, shows its headers and body, writes its attachments to the         *)
(* temporary directory and steps through the sibling files of the opened   *)
(* file's directory.                                                       *)
(*                                                                         *)
(* Text is modelled as a sequence of character codes (ASCII), so that      *)
(* lower(), html.escape(), os.path.join(), dirname() and the suffix tests  *)
(* are computed as the library computes them.  Paths follow the POSIX      *)
(* flavour of os.path.  The value None is the sequence <<-1>>, which is no *)
(* text.                                                                   *)
(***************************************************************************)
EXTENDS Integers, Sequences, FiniteSets, TLC

VARIABLES
    extract_msg,         \* TRUE iff "import extract_msg" succeeded (lines 12-16)
    fs,                  \* the files that exist, as absolute paths
    current_email_path,  \* self.current_email_path
    email_files_list,    \* self.email_files_list
    current_index,       \* self.current_index
    attachments,         \* self.attachments: filename -> temporary path
    attachments_list,    \* the items of the QListWidget, in order
    labels,              \* the texts of the six header labels
    body_text,           \* the html last given to body_text.setHtml
    window_title,        \* the window title
    stack,               \* the load_email_file calls waiting in processEvents (line 110)
    msg,                 \* the message the last load parsed
    outcome,             \* how the last finished load_email_file call ended
    writes,              \* the attachment writes of the last finished load, in order
    attachment_path,     \* file_path of open_attachment: the path it last looked up
    warning,             \* the last warning open_attachment showed, "" for none
    nav_base,            \* the index where the run of next()/previous() calls began
    nav_calls            \* the next() calls less the previous() calls of that run

vars == <<extract_msg, fs, current_email_path, email_files_list, current_index,
          attachments, attachments_list, labels, body_text, window_title, stack,
          msg, outcome, writes, attachment_path, warning, nav_base, nav_calls>>

-----------------------------------------------------------------------------
(* Text                                                                    *)

None == <<-1>>

\* Python truthiness of an optional text: neither None nor "".
Truthy(x) == x # None /\ x # <<>>

\* x or "" (lines 206-211)
OrEmpty(x) == IF Truthy(x) THEN x ELSE <<>>

\* str.lower() on ASCII text
Lower(s) == [i \in DOMAIN s |-> IF s[i] >= 65 /\ s[i] <= 90 THEN s[i] + 32 ELSE s[i]]

\* the order of Python's str comparison: a < b
RECURSIVE StrLess(_, _)
StrLess(a, b) ==
    IF b = <<>> THEN FALSE
    ELSE IF a = <<>> THEN TRUE
    ELSE IF a[1] # b[1] THEN a[1] < b[1]
    ELSE StrLess(Tail(a), Tail(b))

\* str.endswith
EndsWith(s, suffix) ==
    /\ Len(s) >= Len(suffix)
    /\ SubSeq(s, Len(s) - Len(suffix) + 1, Len(s)) = suffix

\* position of the last c in s, 0 if there is none (str.rfind, 1-based)
RECURSIVE RFind(_, _)
RFind(s, c) ==
    IF s = <<>> THEN 0
    ELSE IF s[Len(s)] = c THEN Len(s)
    ELSE RFind(SubSeq(s, 1, Len(s) - 1), c)

\* s.rstrip(chr(c))
RECURSIVE RStrip(_, _)
RStrip(s, c) ==
    IF s # <<>> /\ s[Len(s)] = c THEN RStrip(SubSeq(s, 1, Len(s) - 1), c) ELSE s

\* html.escape(s) with quote=True: & < > " ' become entities
EscapeChar(c) ==
    IF c = 38 THEN <<38, 97, 109, 112, 59>>            \* &amp;
    ELSE IF c = 60 THEN <<38, 108, 116, 59>>           \* &lt;
    ELSE IF c = 62 THEN <<38, 103, 116, 59>>           \* &gt;
    ELSE IF c = 34 THEN <<38, 113, 117, 111, 116, 59>> \* &quot;
    ELSE IF c = 39 THEN <<38, 35, 120, 50, 55, 59>>    \* &#x27;
    ELSE <<c>>

RECURSIVE HtmlEscape(_)
HtmlEscape(s) == IF s = <<>> THEN <<>> ELSE EscapeChar(s[1]) \o HtmlEscape(Tail(s))

\* "<pre>" + html.escape(text) + "</pre>" (lines 175, 182, 225)
Pre(text) == <<60, 112, 114, 101, 62>> \o HtmlEscape(text) \o <<60, 47, 112, 114, 101, 62>>

-----------------------------------------------------------------------------
(* Paths (posixpath)                                                       *)

Slash == <<47>>

\* os.path.dirname(p)
Dirname(p) ==
    LET i == RFind(p, 47)
        head == SubSeq(p, 1, i)
    IN  IF head # <<>> /\ RStrip(head, 47) # <<>> THEN RStrip(head, 47) ELSE head

\* os.path.basename(p)
Basename(p) == SubSeq(p, RFind(p, 47) + 1, Len(p))

\* os.path.splitext(p)[1]: from the last dot of the last component, unless
\* that dot leads the component
SplitExt(p) ==
    LET b == Basename(p)
        i == RFind(b, 46)
    IN  IF i > 1 /\ \E j \in 1..(i - 1) : b[j] # 46 THEN SubSeq(b, i, Len(b)) ELSE <<>>

\* os.path.join(a, b)
PathJoin(a, b) ==
    IF b # <<>> /\ b[1] = 47 THEN b
    ELSE IF a = <<>> \/ a[Len(a)] = 47 THEN a \o b
    ELSE a \o Slash \o b

\* the components of a path: the texts between its slashes
RECURSIVE Components(_)
Components(p) ==
    LET i == RFind(p, 47)
    IN  IF i = 0 THEN <<p>>
        ELSE Components(SubSeq(p, 1, i - 1)) \o <<SubSeq(p, i + 1, Len(p))>>

-----------------------------------------------------------------------------
(* The file system                                                         *)

\* tempfile.gettempdir()
TempDir == <<47, 116, 109, 112>>                                 \* "/tmp"

\* The directories that exist, each as its components: /, /tmp, /d, /e.
\* No step of the program creates or removes a directory.
Dirs == {<<>>, <<<<116, 109, 112>>>>, <<<<100>>>>, <<<<101>>>>}

RECURSIVE JoinComponents(_)
JoinComponents(cs) ==
    IF cs = <<>> THEN <<>> ELSE Slash \o cs[1] \o JoinComponents(Tail(cs))

\* The file that open(path, 'wb') creates or truncates, as the kernel resolves
\* the absolute path; None when open raises OSError (a directory of the path
\* is missing, or the path names a directory).
RECURSIVE Resolve(_, _)
Resolve(cur, rest) ==
    LET c == rest[1]
        special == c = <<>> \/ c = <<46>> \/ c = <<46, 46>>
    IN  IF Len(rest) = 1
        THEN IF special \/ Append(cur, c) \in Dirs
             THEN None
             ELSE JoinComponents(Append(cur, c))
        ELSE IF c = <<>> \/ c = <<46>> THEN Resolve(cur, Tail(rest))
        ELSE IF c = <<46, 46>>
             THEN Resolve(IF cur = <<>> THEN cur ELSE SubSeq(cur, 1, Len(cur) - 1),
                          Tail(rest))
        ELSE IF Append(cur, c) \in Dirs THEN Resolve(Append(cur, c), Tail(rest))
        ELSE None

OpenForWrite(path) == Resolve(<<>>, Components(path))

\* fnmatch of a directory entry against "*" + ext, as glob applies it: the
\* match is case-sensitive and skips names with a leading dot
GlobMatch(name, ext) == EndsWith(name, ext) /\ name[1] # 46

\* glob.glob(os.path.join(directory, "*" + ext)) (lines 118-123)
Glob(directory, ext) ==
    {PathJoin(directory, Basename(f)) :
        f \in {g \in fs : Dirname(g) = directory /\ GlobMatch(Basename(g), ext)}}

ExtEml == <<46, 101, 109, 108>>                                  \* ".eml"
ExtMsg == <<46, 109, 115, 103>>                                  \* ".msg"

\* the patterns of lines 117-123, globbed
GlobFiles(directory) ==
    Glob(directory, ExtEml) \cup (IF extract_msg THEN Glob(directory, ExtMsg) ELSE {})

\* a sort key that keeps the case of the letters
SortKeyRaw(s) == s

\* key=lambda s: s.lower() (line 124)
SortKey(s) == Lower(s)

\* sorted(files, key=...) (line 124)
RECURSIVE Sorted(_)
Sorted(S) ==
    IF S = {} THEN <<>>
    ELSE LET m == CHOOSE x \in S :
                     \A y \in S \ {x} : ~StrLess(SortKey(y), SortKey(x))
         IN  <<m>> \o Sorted(S \ {m})

\* email_files_list.index(file_path), -1 on ValueError (lines 125-128)
IndexOf(list, p) ==
    IF \E i \in DOMAIN list : list[i] = p
    THEN (CHOOSE i \in DOMAIN list : list[i] = p /\ \A j \in 1..(i - 1) : list[j] # p) - 1
    ELSE -1

-----------------------------------------------------------------------------
(* Messages                                                                *)
(*                                                                         *)
(* A parsed .eml message is [multipart, headers, parts]: parts are its     *)
(* leaf parts in walk order (the message itself when it is not multipart). *)
(* multipart is what is_multipart() returns: a file whose Content-Type is  *)
(* multipart/* but which holds no part parses to a message that is not     *)
(* multipart, its own content type still multipart/*.                      *)
(* A part is [ctype, disp, filename, content]: disp is what                *)
(* get_content_disposition() returns ("none" for None), filename what      *)
(* get_filename() returns, content the decoded payload.  In the messages   *)
(* of this model the Content-Disposition header holds the word             *)
(* "attachment" exactly when disp is "attachment" (line 190).              *)
(* A parsed .msg message is what extract_msg.Message exposes.              *)

HeaderNames == {"From", "To", "Cc", "Bcc", "Subject", "Date"}

\* the part a multipart message is itself: walk() yields it first
RootPart == [ctype |-> "multipart/mixed", disp |-> "none", filename |-> None,
             content |-> <<>>]

\* msg.walk() (lines 166, 188)
Walk(m) == IF m.multipart THEN <<RootPart>> \o m.parts ELSE m.parts

\* get_content() returns str for text/* parts and bytes for the others
IsText(part) == part.ctype \in {"text/plain", "text/html"}

\* get_content() finds no handler for a multipart/* type: KeyError (line 178)
HasContent(part) == part.ctype # "multipart/mixed"

\* bytes.decode("utf-8", errors="replace") for input whose characters need
\* at most two bytes: a stray or truncated byte becomes U+FFFD
RECURSIVE Utf8Decode(_)
Utf8Decode(b) ==
    IF b = <<>> THEN <<>>
    ELSE IF b[1] < 128 THEN <<b[1]>> \o Utf8Decode(Tail(b))
    ELSE IF b[1] >= 194 /\ b[1] <= 223 /\ Len(b) >= 2 /\ b[2] >= 128 /\ b[2] <= 191
         THEN <<(b[1] - 192) * 64 + (b[2] - 128)>> \o Utf8Decode(Tail(Tail(b)))
    ELSE <<65533>> \o Utf8Decode(Tail(b))

\* the six label texts (lines 154-159, 213-218)
LabelPrefix(h) ==
    CASE h = "From" -> <<70, 114, 111, 109, 58, 32>>                   \* "From: "
      [] h = "To" -> <<84, 111, 58, 32>>                               \* "To: "
      [] h = "Cc" -> <<67, 67, 58, 32>>                                \* "CC: "
      [] h = "Bcc" -> <<66, 67, 67, 58, 32>>                           \* "BCC: "
      [] h = "Subject" -> <<83, 117, 98, 106, 101, 99, 116, 58, 32>>   \* "Subject: "
      [] h = "Date" -> <<68, 97, 116, 101, 58, 32>>                    \* "Date: "

\* msg.get(name, '') (lines 154-159)
HeaderGet(m, h) == IF m.headers[h] = None THEN <<>> ELSE m.headers[h]

EmlLabels(m) == [h \in HeaderNames |-> LabelPrefix(h) \o HeaderGet(m, h)]

\* msg.sender or "", ... (lines 206-218)
MsgLabels(m) == [h \in HeaderNames |-> LabelPrefix(h) \o OrEmpty(m.headers[h])]

\* The candidate the loop of lines 166-171 leaves in html_body / plain_body:
\* each matching part assigns it anew.
RECURSIVE WalkCapture(_, _, _)
WalkCapture(parts, ctype, found) ==
    IF parts = <<>> THEN found
    ELSE WalkCapture(Tail(parts), ctype,
                     IF parts[1].disp = "none" /\ parts[1].ctype = ctype
                     THEN parts[1].content ELSE found)

\* lines 161-182: [raised, body]; raised when get_content() raises and when
\* html.escape is given bytes
EmlBody(m) ==
    IF m.multipart
    THEN LET html_body == WalkCapture(Walk(m), "text/html", None)
             plain_body == WalkCapture(Walk(m), "text/plain", None)
         IN  [raised |-> FALSE,
              body |-> IF Truthy(html_body) THEN html_body
                       ELSE IF Truthy(plain_body) THEN Pre(plain_body)
                       ELSE <<>>]
    ELSE LET part == m.parts[1]
         IN  IF part.ctype = "text/html" THEN [raised |-> FALSE, body |-> part.content]
             ELSE IF HasContent(part) /\ IsText(part)
                  THEN [raised |-> FALSE, body |-> Pre(part.content)]
             ELSE [raised |-> TRUE, body |-> <<>>]

\* lines 220-227
MsgBody(m) ==
    IF Truthy(m.htmlBody)
    THEN IF m.htmlIsBytes THEN Utf8Decode(m.htmlBody) ELSE m.htmlBody
    ELSE IF Truthy(m.body) THEN Pre(m.body)
    ELSE <<>>

\* self.attachments[filename] = temp_path (lines 198, 240)
MapPut(map, k, v) == [x \in DOMAIN map \cup {k} |-> IF x = k THEN v ELSE map[x]]

NoAttachments == [map |-> <<>>, items |-> <<>>, log |-> <<>>, files |-> {},
                  raised |-> FALSE]

\* one attachment written: lines 194-202 and 235-244
Written(acc, filename, temp_path, target) ==
    [acc EXCEPT !.map = MapPut(@, filename, temp_path),
                !.items = Append(@, filename),
                !.files = @ \cup {target},
                !.log = Append(@, [filename |-> filename, path |-> temp_path,
                                   target |-> target])]

\* the open of line 196 / 238 raised
NotWritten(acc, filename, temp_path) ==
    [acc EXCEPT !.log = Append(@, [filename |-> filename, path |-> temp_path,
                                   target |-> None])]

\* lines 188-202: the first open() that raises ends the loop and the load
RECURSIVE EmlAttachments(_, _)
EmlAttachments(parts, acc) ==
    IF parts = <<>> THEN acc
    ELSE LET part == parts[1]
             temp_path == PathJoin(TempDir, part.filename)
             target == OpenForWrite(temp_path)
         IN  IF part.disp = "attachment" /\ Truthy(part.filename)
             THEN IF target = None
                  THEN [NotWritten(acc, part.filename, temp_path) EXCEPT !.raised = TRUE]
                  ELSE EmlAttachments(Tail(parts),
                                      Written(acc, part.filename, temp_path, target))
             ELSE EmlAttachments(Tail(parts), acc)

\* line 233
MsgFilename(att) == IF Truthy(att.longFilename) THEN att.longFilename
                    ELSE att.shortFilename

\* lines 232-246: an open() that raises is caught and the loop goes on
RECURSIVE MsgAttachments(_, _)
MsgAttachments(atts, acc) ==
    IF atts = <<>> THEN acc
    ELSE LET filename == MsgFilename(atts[1])
             temp_path == PathJoin(TempDir, filename)
             target == OpenForWrite(temp_path)
         IN  IF Truthy(filename)
             THEN MsgAttachments(Tail(atts),
                                 IF target = None
                                 THEN NotWritten(acc, filename, temp_path)
                                 ELSE Written(acc, filename, temp_path, target))
             ELSE MsgAttachments(Tail(atts), acc)

-----------------------------------------------------------------------------
(* The files and messages of the model                                     *)

PathA == <<47, 100, 47, 97, 46, 101, 109, 108>>                  \* "/d/a.eml"
PathB == <<47, 100, 47, 66, 46, 101, 109, 108>>                  \* "/d/B.eml"
PathC == <<47, 100, 47, 99, 46, 109, 115, 103>>                  \* "/d/c.msg"
PathUpper == <<47, 100, 47, 68, 46, 69, 77, 76>>                 \* "/d/D.EML"
PathTxt == <<47, 100, 47, 110, 46, 116, 120, 116>>               \* "/d/n.txt"
PathZ == <<47, 101, 47, 122, 46, 101, 109, 108>>                 \* "/e/z.eml"

InitialFiles == {PathA, PathB, PathC, PathUpper, PathTxt, PathZ}

\* the files another process creates and deletes while the viewer runs
Volatile == {PathB}

\* what the file dialog can return ("" when cancelled) and what can be dropped
DialogPaths == {<<>>, PathB, PathTxt}
DropPaths == {PathC, PathTxt}

NameReport == <<114, 46, 112, 100, 102>>                         \* "r.pdf"
NameUp == <<46, 46, 47, 100, 47, 101, 46, 101, 109, 108>>        \* "../d/e.eml"
NameAbs == <<47, 100, 47, 101, 46, 101, 109, 108>>               \* "/d/e.eml"
NameSub == <<115, 47, 120, 46, 116, 120, 116>>                   \* "s/x.txt"

Headers(from, subject) ==
    [h \in HeaderNames |-> IF h = "From" THEN from
                           ELSE IF h = "Subject" THEN subject ELSE None]

BodyPart(ctype, content) ==
    [ctype |-> ctype, disp |-> "none", filename |-> None, content |-> content]

AttachmentPart(ctype, filename) ==
    [ctype |-> ctype, disp |-> "attachment", filename |-> filename,
     content |-> <<37, 80, 68, 70>>]                             \* "%PDF"

PlainPart == BodyPart("text/plain", <<97, 60, 98>>)              \* "a<b"
HtmlPart1 == BodyPart("text/html", <<60, 98, 62, 49, 60, 47, 98, 62>>)   \* "<b>1</b>"
HtmlPart2 == BodyPart("text/html", <<60, 105, 62, 50, 60, 47, 105, 62>>) \* "<i>2</i>"

\* the leaf parts the generated messages are built from
PartKinds ==
    {PlainPart, HtmlPart1, HtmlPart2,
     BodyPart("text/plain", <<>>),
     [PlainPart EXCEPT !.disp = "inline"],
     AttachmentPart("application/pdf", NameReport),
     AttachmentPart("text/plain", NameUp),
     AttachmentPart("application/pdf", NameSub)}

\* most parts of a generated multipart message
MaxParts == 2

\* the sequences of 1 to n elements of S
RECURSIVE SeqsUpTo(_, _)
SeqsUpTo(S, n) ==
    IF n = 1 THEN {<<x>> : x \in S}
    ELSE LET shorter == SeqsUpTo(S, n - 1)
         IN  shorter \cup {Append(q, x) : q \in shorter, x \in S}

EmlHeaders == Headers(<<97, 110, 110>>, <<>>)                    \* From: ann, Subject:

\* what a multipart/mixed file without any part parses to
NoPartMessage == [multipart |-> FALSE, headers |-> EmlHeaders, parts |-> <<RootPart>>]

\* every message of one leaf part, every multipart message of 1 to MaxParts
\* leaf parts, and the multipart file without a part
AllEml ==
    {[multipart |-> FALSE, headers |-> EmlHeaders, parts |-> <<k>>] : k \in PartKinds}
    \cup {[multipart |-> TRUE, headers |-> EmlHeaders, parts |-> q] :
             q \in SeqsUpTo(PartKinds, MaxParts)}
    \cup {NoPartMessage}

MsgAtt(long, short) == [longFilename |-> long, shortFilename |-> short,
                        data |-> <<37, 80, 68, 70>>]

MsgOf(html, isBytes, body, atts) ==
    [headers |-> Headers(None, <<104, 105>>), htmlBody |-> html,
     htmlIsBytes |-> isBytes, body |-> body, attachments |-> atts]

AllMsg ==
    {MsgOf(h[1], h[2], b, a) :
        h \in {<<None, FALSE>>, <<<<60, 117, 62, 195, 169, 60, 47, 117, 62>>, TRUE>>,
               <<<<60, 98, 62, 49, 60, 47, 98, 62>>, FALSE>>},
        b \in {None, <<120, 38, 121>>},
        a \in {<<>>,
               <<MsgAtt(None, NameReport)>>,
               <<MsgAtt(NameSub, NameReport), MsgAtt(NameReport, <<>>)>>,
               <<MsgAtt(NameAbs, None), MsgAtt(None, None)>>}}

\* the mail the viewer finds in the files while it steps through them
MailA == [multipart |-> TRUE, headers |-> EmlHeaders,
          parts |-> <<PlainPart, HtmlPart1, AttachmentPart("application/pdf", NameReport)>>]
MailG == MsgOf(None, FALSE, <<120, 38, 121>>, <<MsgAtt(None, NameReport)>>)

EmlBox == {MailA}
MsgBox == {MailG}

-----------------------------------------------------------------------------
(* The viewer                                                              *)

\* "<p>Loading email, please wait...</p>" (line 109)
LoadingHtml == <<60, 112, 62, 76, 111, 97, 100, 105, 110, 103, 32, 101, 109, 97,
                 105, 108, 44, 32, 112, 108, 101, 97, 115, 101, 32, 119, 97, 105,
                 116, 46, 46, 46, 60, 47, 112, 62>>

\* f"Emlee - {os.path.basename(file_path)}" (line 113)
Title(p) == <<69, 109, 108, 101, 101, 32, 45, 32>> \o Basename(p)

\* the label texts init_ui sets (lines 60-65)
InitialLabels == [h \in HeaderNames |-> LabelPrefix(h)]

\* no message parsed
NoMessage == [parsed |-> FALSE]

Init ==
    /\ extract_msg \in BOOLEAN
    /\ fs = InitialFiles
    /\ current_email_path = None
    /\ email_files_list = <<>>
    /\ current_index = -1
    /\ attachments = <<>>
    /\ attachments_list = <<>>
    /\ labels = InitialLabels
    /\ body_text = <<>>
    /\ window_title = <<69, 109, 108, 101, 101>>                 \* "Emlee"
    /\ stack = <<>>
    /\ msg = NoMessage
    /\ outcome = "None"
    /\ writes = <<>>
    /\ attachment_path = None
    /\ warning = ""
    /\ nav_base = -1
    /\ nav_calls = 0

\* next_index (line 260)
NextIndex == (current_index + 1) % Len(email_files_list)

\* a previous index that stops at the first file instead of wrapping
PrevIndexClamped == IF current_index - 1 < 0 THEN 0 ELSE current_index - 1

\* prev_index (line 265)
PrevIndex == (current_index - 1) % Len(email_files_list)

\* load_email_file up to its processEvents() call (lines 107-110).  The call
\* waits there while the event loop delivers what is pending: a handler that
\* starts now runs, and returns, before this call goes on.  depth bounds how
\* many calls wait at once.  seq: the call began with no other call waiting,
\* and none has begun since.
Begin(p, via, depth) ==
    /\ Len(stack) < depth
    /\ body_text' = LoadingHtml
    /\ stack' = Append([i \in DOMAIN stack |-> [stack[i] EXCEPT !.seq = FALSE]],
                       [file_path |-> p, via |-> via, seq |-> stack = <<>>])
    /\ UNCHANGED <<extract_msg, fs, current_email_path, email_files_list,
                   current_index, attachments, attachments_list, labels,
                   window_title, msg, outcome, writes, attachment_path, warning,
                   nav_base, nav_calls>>

\* lines 99-105
OpenFileDialog(p, depth) ==
    IF p # <<>> THEN Begin(p, "dialog", depth) ELSE Len(stack) < depth /\ UNCHANGED vars

\* lines 277-282
DropEvent(p, depth) ==
    IF EndsWith(Lower(p), ExtEml) \/ EndsWith(Lower(p), ExtMsg)
    THEN Begin(p, "drop", depth)
    ELSE Len(stack) < depth /\ UNCHANGED vars

\* lines 258-261
LoadNext(depth) ==
    IF email_files_list # <<>>
    THEN Begin(email_files_list[NextIndex + 1], "next", depth)
    ELSE Len(stack) < depth /\ UNCHANGED vars

\* lines 263-266
LoadPrevious(depth) ==
    IF email_files_list # <<>>
    THEN Begin(email_files_list[PrevIndex + 1], "previous", depth)
    ELSE Len(stack) < depth /\ UNCHANGED vars

\* the warning of lines 255-256 for the AttributeError os.startfile raises: the
\* function exists on Windows only, and the paths of this model are POSIX paths
StartfileError == "Could not open attachment:\nmodule 'os' has no attribute 'startfile'"

\* lines 248-256: the path is looked up in the map (line 251), os.startfile
\* raises, and the warning of lines 255-256 is shown; no file is started
OpenAttachment(item) ==
    /\ IF item \in DOMAIN attachments
       THEN /\ attachment_path' = attachments[item]
            /\ warning' = StartfileError
       ELSE UNCHANGED <<attachment_path, warning>>
    /\ UNCHANGED <<extract_msg, fs, current_email_path, email_files_list,
                   current_index, attachments, attachments_list, labels, body_text,
                   window_title, stack, msg, outcome, writes, nav_base, nav_calls>>

Loaded(ls, body, att, out, m) ==
    [labels |-> ls, body |-> body, att |-> att, outcome |-> out, msg |-> m]

\* load_eml (lines 149-202) on the parsed message m, NoMessage when the file
\* cannot be opened
LoadEml(m) ==
    IF m = NoMessage
    THEN Loaded(labels, body_text, NoAttachments, "Exception", NoMessage)
    ELSE LET b == EmlBody(m)
             a == EmlAttachments(Walk(m), NoAttachments)
         IN  IF b.raised
             THEN Loaded(EmlLabels(m), body_text, NoAttachments, "Exception", m)
             ELSE Loaded(EmlLabels(m), b.body, a,
                         IF a.raised THEN "Exception" ELSE "Ok", m)

\* load_msg (lines 204-246)
LoadMsg(m) ==
    IF m = NoMessage
    THEN Loaded(labels, body_text, NoAttachments, "Exception", NoMessage)
    ELSE Loaded(MsgLabels(m), MsgBody(m),
                MsgAttachments(m.attachments, NoAttachments), "Ok", m)

\* the dispatch of lines 134-144
Dispatch(p, m) ==
    LET ext == Lower(SplitExt(p))
    IN  IF ext = ExtEml THEN LoadEml(m)
        ELSE IF ext = ExtMsg
             THEN IF extract_msg THEN LoadMsg(m)
                  ELSE Loaded(labels, body_text, NoAttachments, "FormatUnsupported",
                              NoMessage)
        ELSE Loaded(labels, body_text, NoAttachments, "UnrecognizedFormat", NoMessage)

\* what the file at p parses to: one of the messages given, NoMessage when the
\* file does not exist or no reader is asked
Contents(p, emls, msgs) ==
    LET ext == Lower(SplitExt(p))
    IN  IF p \notin fs THEN {NoMessage}
        ELSE IF ext = ExtEml THEN emls
        ELSE IF ext = ExtMsg /\ extract_msg THEN msgs
        ELSE {NoMessage}

\* load_email_file after processEvents() has returned (lines 112-147), for
\* the call that waits innermost
Finish(emls, msgs) ==
    /\ stack # <<>>
    /\ LET top == stack[Len(stack)]
           p == top.file_path
           step == IF top.via = "next" THEN 1
                   ELSE IF top.via = "previous" THEN -1 ELSE 0
       IN  \E m \in Contents(p, emls, msgs) :
           \E r \in {Dispatch(p, m)} :
           \E list \in {Sorted(GlobFiles(Dirname(p)))} :
           \E index \in {IndexOf(list, p)} :
           \E fresh \in {\A f \in r.att.files \ fs : Dirname(f) # Dirname(p)} :
             LET counts == /\ step # 0 /\ top.seq /\ fresh /\ nav_base >= 0
                           /\ nav_calls + step <= Len(email_files_list)
                           /\ nav_calls + step >= -Len(email_files_list)
             IN  /\ current_email_path' = p
                 /\ window_title' = Title(p)
                 /\ email_files_list' = list
                 /\ current_index' = index
                 /\ labels' = r.labels
                 /\ body_text' = r.body
                 /\ attachments' = r.att.map
                 /\ attachments_list' = r.att.items
                 /\ writes' = r.att.log
                 /\ fs' = fs \cup r.att.files
                 /\ msg' = r.msg
                 /\ outcome' = r.outcome
                 /\ stack' = SubSeq(stack, 1, Len(stack) - 1)
                 /\ nav_base' = IF counts THEN nav_base
                                ELSE IF fresh THEN index ELSE -1
                 /\ nav_calls' = IF counts THEN nav_calls + step ELSE 0
                 /\ UNCHANGED <<extract_msg, attachment_path, warning>>

\* another process creates or deletes a file
FileChange(f) ==
    /\ fs' = IF f \in fs THEN fs \ {f} ELSE fs \cup {f}
    /\ LET hit == current_email_path # None /\ Dirname(current_email_path) = Dirname(f)
       IN  /\ nav_base' = IF hit THEN -1 ELSE nav_base
           /\ nav_calls' = IF hit THEN 0 ELSE nav_calls
    /\ UNCHANGED <<extract_msg, current_email_path, email_files_list,
                   current_index, attachments, attachments_list, labels, body_text,
                   window_title, stack, msg, outcome, writes, attachment_path,
                   warning>>

\* most load_email_file calls that wait in processEvents() at once
MaxDepth == 2

Next ==
    \/ \E p \in DialogPaths : OpenFileDialog(p, MaxDepth)
    \/ \E p \in DropPaths : DropEvent(p, MaxDepth)
    \/ LoadNext(MaxDepth)
    \/ LoadPrevious(MaxDepth)
    \/ \E i \in DOMAIN attachments_list : OpenAttachment(attachments_list[i])
    \/ Finish(EmlBox, MsgBox)
    \/ \E f \in Volatile : FileChange(f)

Spec == Init /\ [][Next]_vars

\* The viewer opening the two files below one after the other, each open
\* returning before the next event arrives, over every generated message.
LoadPaths == {PathA, PathC}

NextLoad ==
    \/ \E p \in LoadPaths : OpenFileDialog(p, 1)
    \/ Finish(AllEml, AllMsg)

SpecLoad == Init /\ [][NextLoad]_vars

-----------------------------------------------------------------------------
(* Properties                                                              *)

IsEml(m) == "parts" \in DOMAIN m
IsMsg(m) == "attachments" \in DOMAIN m

\* a load_email_file call returns in this step
Returns == Len(stack') < Len(stack)

\* a load_email_file call returns in this step, and no handler ran inside it
ReturnsAlone == Len(stack) = 1 /\ stack' = <<>> /\ stack[1].seq

Failures == {"Exception", "FormatUnsupported", "UnrecognizedFormat"}

\* the filenames of the attachments message m carries
AttachmentNames(m) ==
    IF IsEml(m)
    THEN {m.parts[i].filename : i \in {j \in DOMAIN m.parts : m.parts[j].disp = "attachment"}}
    ELSE IF IsMsg(m) THEN {MsgFilename(m.attachments[i]) : i \in DOMAIN m.attachments}
    ELSE {}

\* C1: with the directory listing unchanged and no handler running inside
\* another, the index after a run of next() and previous() calls begun at
\* index nav_base is (nav_base + calls) mod k: k next() calls bring it back to
\* nav_base, and previous() at index 0 gives k - 1.
C1_NavigatorCyclic ==
    nav_base >= 0 =>
        LET k == Len(email_files_list)
        IN  /\ k >= 1
            /\ current_index = (nav_base + nav_calls) % k
            /\ (nav_calls = k => current_index = nav_base)
            /\ (nav_base = 0 /\ nav_calls = -1 => current_index = k - 1)

\* k = 3 next() calls in a row have returned, back at the starting index
C1_Witness ==
    /\ Len(email_files_list) = 3
    /\ nav_base >= 0
    /\ nav_calls = 3
    /\ current_index = nav_base
    /\ stack = <<>>

\* C4: when an open returns, the list is the opened file's directory, not
\* its subdirectories, filtered to *.eml (and *.msg with the reader), in
\* case-insensitive order of the full paths, and the index is the place of the
\* opened path in it, -1 if it is not there.
C4_NavigationState ==
    [][Returns =>
        LET p == stack[Len(stack)].file_path
            eligible == {f \in fs :
                           /\ Dirname(f) = Dirname(p)
                           /\ \/ EndsWith(Basename(f), ExtEml)
                              \/ extract_msg /\ EndsWith(Basename(f), ExtMsg)}
            list == email_files_list'
        IN  /\ {list[i] : i \in DOMAIN list} = eligible
            /\ Len(list) = Cardinality(eligible)
            /\ \A i, j \in DOMAIN list :
                 i < j => ~StrLess(Lower(list[j]), Lower(list[i]))
            /\ IF p \in eligible
               THEN current_index' >= 0 /\ list[current_index' + 1] = p
               ELSE current_index' = -1]_vars

\* a.eml, B.eml, c.msg with the reader: B.eml opened, at index 1
C4_Witness ==
    /\ extract_msg
    /\ stack = <<>>
    /\ current_email_path = PathB
    /\ email_files_list = <<PathA, PathB, PathC>>
    /\ current_index = 1

\* C3: an open that fails leaves the current path, the header labels and
\* the attachment map as they were before it.
C3_FailedOpenKeepsState ==
    [][ReturnsAlone /\ outcome' \in Failures =>
        /\ current_email_path' = current_email_path
        /\ labels' = labels
        /\ attachments' = attachments
        /\ attachments_list' = attachments_list]_vars

\* C5: with the index at -1, next() and previous() load no file.
C5_SentinelDisablesNavigation ==
    [][current_index = -1 =>
        ~(/\ Len(stack') > Len(stack)
          /\ stack'[Len(stack')].via \in {"next", "previous"})]_vars

\* C7: the map holds entries of the last opened email only, and once a new
\* open has begun (and no other open has run inside it, so that the map is
\* still the one the email before left) open_attachment reaches no path
\* through the map.
C7_NoStaleHandle ==
    /\ [](DOMAIN attachments \subseteq AttachmentNames(msg))
    /\ [][stack # <<>> /\ stack[Len(stack)].seq =>
            attachment_path' = attachment_path]_vars

\* C9: at most one load_email_file call is in progress at any time.
C9_OneOpenAtATime == Len(stack) <= 1

\* The leaf parts of m that are body candidates of type ctype.  No part
\* marked as attachment is one; inline says whether a part marked inline is,
\* empty whether a part with no text is.
Candidates(m, ctype, inline, empty) ==
    {i \in DOMAIN m.parts :
        /\ m.parts[i].ctype = ctype
        /\ m.parts[i].disp = "none" \/ (inline /\ m.parts[i].disp = "inline")
        /\ empty \/ m.parts[i].content # <<>>}

PolicyBody(m, inline, empty) ==
    IF Candidates(m, "text/html", inline, empty) # {}
    THEN \E i \in Candidates(m, "text/html", inline, empty) :
            body_text = m.parts[i].content
    ELSE IF Candidates(m, "text/plain", inline, empty) # {}
    THEN \E i \in Candidates(m, "text/plain", inline, empty) :
            body_text = Pre(m.parts[i].content)
    ELSE body_text = <<>>

\* C2: the body shown is an HTML candidate verbatim if there is one, else a
\* plain-text candidate escaped and wrapped if there is one, else empty, for
\* .eml and .msg, single-part and multipart alike (whichever way inline and
\* empty parts are counted).
C2_BodyPolicy ==
    outcome = "Ok" =>
        IF IsEml(msg)
        THEN \E inline, empty \in BOOLEAN : PolicyBody(msg, inline, empty)
        ELSE IF Truthy(msg.htmlBody)
             THEN body_text = IF msg.htmlIsBytes THEN Utf8Decode(msg.htmlBody)
                              ELSE msg.htmlBody
             ELSE IF Truthy(msg.body) THEN body_text = Pre(msg.body)
             ELSE body_text = <<>>

\* the parts of m with no disposition and type ctype
PartsOf(m, ctype) ==
    {i \in DOMAIN m.parts : m.parts[i].ctype = ctype /\ m.parts[i].disp = "none"}

First(is) == CHOOSE i \in is : \A j \in is : i <= j

\* C10: of several text/html parts of a multipart message, each with text,
\* the first in walk order is the body; without a text/html part the first of
\* the text/plain parts is.
C10_FirstCandidateWins ==
    /\ IsEml(msg)
    /\ msg.multipart
    /\ \A i \in DOMAIN msg.parts : msg.parts[i].disp = "none" => msg.parts[i].content # <<>>
    => LET hs == PartsOf(msg, "text/html")
           ts == PartsOf(msg, "text/plain")
       IN  IF hs # {} THEN body_text = msg.parts[First(hs)].content
           ELSE ts # {} => body_text = Pre(msg.parts[First(ts)].content)

\* the file of this name under the temporary directory can be opened for
\* writing
Writable(name) == OpenForWrite(PathJoin(TempDir, name)) # None

\* C6: when the write of one attachment fails, and another can be written,
\* the load still ends well and every attachment that can be written is in the
\* map.
C6_WriteFailureNonFatal ==
    /\ msg # NoMessage
    /\ \E n \in AttachmentNames(msg) : Truthy(n) /\ ~Writable(n)
    /\ \E n \in AttachmentNames(msg) : Truthy(n) /\ Writable(n)
    /\ IsEml(msg) => ~EmlBody(msg).raised
    => /\ outcome = "Ok"
       /\ \A n \in AttachmentNames(msg) :
            Truthy(n) /\ Writable(n) => n \in DOMAIN attachments

\* C8: every attachment is written to the temporary directory joined with
\* its filename, a file inside that directory.
C8_WritesInsideTempDir ==
    \A i \in DOMAIN writes :
        /\ writes[i].path = TempDir \o Slash \o writes[i].filename
        /\ writes[i].target # None =>
             SubSeq(writes[i].target, 1, Len(TempDir) + 1) = TempDir \o Slash

=============================================================================
